---- MODULE Spec2Model ----
(***************************************************************************)
(* Model of the import-rewriting scripts update-imports-sprint23.py and    *)
(* update-imports-sprint24.py.  Text is a sequence of one-character        *)
(* strings; a file on disk is a sequence of bytes, where an ASCII byte is  *)
(* written as its character and XFF, CR, LF are the bytes 0xFF, 0x0D, 0x0A.*)
(* A regular expression of the scripts is a sequence of character classes  *)
(* (the patterns use no quantifier, so a match has the pattern's length).  *)
(***************************************************************************)
EXTENDS Integers, Sequences, FiniteSets, TLC

VARIABLES patterns, linesep, rootExists, tree, disk, pc, ext, pending,
          updated_files, output, disk0, calls, errors, wopened, run,
          prevErrors, prevUpdated

vars == <<patterns, linesep, rootExists, tree, disk, pc, ext, pending,
          updated_files, output, disk0, calls, errors, wopened, run,
          prevErrors, prevUpdated>>

(* ---------------------------- bounds ----------------------------------- *)
\* number of chunks a file's content is built from (rewrite specification)
MaxChunks == 2
\* number of files in the tree (batch specification)
MaxFiles == 2

(* ---------------------------- characters ------------------------------- *)
XFF == "xFF"
CR == "CR"
LF == "LF"
SQ == "'"
DQ == "\""

KwFrom == <<"f", "r", "o", "m", " ">>
LegacyDir == <<"@", "/", "c", "o", "m", "p", "o", "n", "e", "n", "t", "s", "/", "u", "i", "/">>
NewModule == <<"@", "j", "a", "d", "e", "/", "u", "i", "/", "c", "o", "m", "p", "o", "n", "e", "n", "t", "s">>
Brace == <<"}", " ">>
badge == <<"b", "a", "d", "g", "e">>
alert == <<"a", "l", "e", "r", "t">>
label == <<"l", "a", "b", "e", "l">>
textarea == <<"t", "e", "x", "t", "a", "r", "e", "a">>
select == <<"s", "e", "l", "e", "c", "t">>
progress == <<"p", "r", "o", "g", "r", "e", "s", "s">>
switch == <<"s", "w", "i", "t", "c", "h">>
scroll_area == <<"s", "c", "r", "o", "l", "l", "-", "a", "r", "e", "a">>
tabs == <<"t", "a", "b", "s">>
dropdown_menu == <<"d", "r", "o", "p", "d", "o", "w", "n", "-", "m", "e", "n", "u">>
dialog == <<"d", "i", "a", "l", "o", "g">>

(* ---------------------------- rule tables ------------------------------ *)
\* a literal piece of a regular expression: one singleton class per character
Lit(s) == [i \in DOMAIN s |-> {s[i]}]

\* the class ['] alone
QuoteClassSingle == {SQ}

\* the class ['\"] of the patterns: a single or a double quote
QuoteClass == {SQ, DQ}

\* r"from ['\"]@/components/ui/<name>['\"]"
ImportPattern(name) ==
    Lit(KwFrom) \o <<QuoteClass>> \o Lit(LegacyDir \o name) \o <<QuoteClass>>

\* "from '@jade/ui/components'"
Replacement == KwFrom \o <<SQ>> \o NewModule \o <<SQ>>

Rule(p, r) == [pat |-> p, repl |-> r]

\* the Sprint 2.3 table with the badge rule pointing at the alert module
patterns23Chained ==
    << Rule(ImportPattern(badge), KwFrom \o <<SQ>> \o LegacyDir \o alert \o <<SQ>>),
       Rule(ImportPattern(alert), Replacement),
       Rule(ImportPattern(label), Replacement),
       Rule(ImportPattern(textarea), Replacement),
       Rule(ImportPattern(select), Replacement) >>

patterns23 ==
    << Rule(ImportPattern(badge), Replacement),
       Rule(ImportPattern(alert), Replacement),
       Rule(ImportPattern(label), Replacement),
       Rule(ImportPattern(textarea), Replacement),
       Rule(ImportPattern(select), Replacement) >>

patterns24 ==
    << Rule(ImportPattern(progress), Replacement),
       Rule(ImportPattern(switch), Replacement),
       Rule(ImportPattern(scroll_area), Replacement),
       Rule(ImportPattern(tabs), Replacement),
       Rule(ImportPattern(dropdown_menu), Replacement),
       Rule(Lit(Brace) \o ImportPattern(dialog), Brace \o Replacement) >>

(* ---------------------------- re.sub ----------------------------------- *)
\* the pattern matches the text at position i
MatchAt(pat, s, i) ==
    /\ i + Len(pat) - 1 <= Len(s)
    /\ \A k \in 1..Len(pat) : s[i + k - 1] \in pat[k]

HasMatch(pat, s) == \E i \in 1..Len(s) : MatchAt(pat, s, i)

\* the least number of a non-empty set of numbers
Least(S) == CHOOSE i \in S : \A j \in S : i <= j

\* the positions from i on where the pattern matches
MatchesFrom(pat, s, i) == {j \in i..Len(s) : MatchAt(pat, s, j)}

RECURSIVE SubFrom(_, _, _, _)
\* the scan of re.sub from position i: the text up to the leftmost match is
\* kept, the match is replaced and the scan goes on behind it
SubFrom(pat, repl, s, i) ==
    LET found == MatchesFrom(pat, s, i)
    IN  IF found = {} THEN SubSeq(s, i, Len(s))
        ELSE LET j == Least(found)
             IN  SubSeq(s, i, j - 1) \o repl \o SubFrom(pat, repl, s, j + Len(pat))

\* re.sub with count=1: only the leftmost match is replaced
SubFirst(pat, repl, s) ==
    IF HasMatch(pat, s)
    THEN LET i == CHOOSE j \in 1..Len(s) :
                     /\ MatchAt(pat, s, j)
                     /\ \A h \in 1..(j - 1) : ~MatchAt(pat, s, h)
         IN  SubSeq(s, 1, i - 1) \o repl \o SubSeq(s, i + Len(pat), Len(s))
    ELSE s

RECURSIVE SubFromGreedy(_, _, _, _)
SubFromGreedy(pat, repl, s, i) ==
    LET found == MatchesFrom(pat, s, i)
    IN  IF found = {} THEN SubSeq(s, i, Len(s))
        ELSE LET j == Least(found)
             IN  SubSeq(s, i, j - 1) \o repl
                    \o SubFromGreedy(pat, repl, s, j + Len(pat) + 1)

\* re.sub with a pattern that also takes the character after the clause
SubGreedy(pat, repl, s) == SubFromGreedy(pat, repl, s, 1)

\* re.sub(pattern, replacement, content): every non-overlapping match,
\* leftmost first, is replaced; a text without a match is returned as it is
Sub(pat, repl, s) ==
    IF HasMatch(pat, s) THEN SubFrom(pat, repl, s, 1) ELSE s

\* the rules that match at position i, and the positions from i on where one does
RulesAt(rules, s, i) == {r \in DOMAIN rules : MatchAt(rules[r].pat, s, i)}
AnyMatchesFrom(rules, s, i) == {j \in i..Len(s) : RulesAt(rules, s, j) # {}}

RECURSIVE SinglePassFrom(_, _, _)
SinglePassFrom(rules, s, i) ==
    LET found == AnyMatchesFrom(rules, s, i)
    IN  IF found = {} THEN SubSeq(s, i, Len(s))
        ELSE LET j == Least(found)
                 r == Least(RulesAt(rules, s, j))
             IN  SubSeq(s, i, j - 1) \o rules[r].repl
                    \o SinglePassFrom(rules, s, j + Len(rules[r].pat))

\* one pass over s that replaces the matches of all rules found in s itself
SinglePass(rules, s) == SinglePassFrom(rules, s, 1)

RECURSIVE ApplyRulesFirstHit(_, _)
\* the loop left at the first rule that changes the content
ApplyRulesFirstHit(rules, content) ==
    IF rules = <<>> THEN content
    ELSE LET c == Sub(Head(rules).pat, Head(rules).repl, content)
         IN  IF c # content THEN c ELSE ApplyRulesFirstHit(Tail(rules), content)

\* for pattern, replacement in patterns: content = re.sub(...)
RECURSIVE ApplyRules(_, _)
ApplyRules(rules, content) ==
    IF rules = <<>> THEN content
    ELSE ApplyRules(Tail(rules), Sub(Head(rules).pat, Head(rules).repl, content))

\* the write made unconditional
ChangedAlways(content, original_content) == TRUE

\* if content != original_content
Changed(content, original_content) == content # original_content

(* ---------------------------- file input and output -------------------- *)
\* universal newlines of a text-mode read: \r\n and \r become \n
Newlines(s) ==
    LET afterCR(i) == i > 1 /\ s[i - 1] = CR
        marked == [i \in DOMAIN s |->
                     IF s[i] = LF /\ afterCR(i) THEN ""
                     ELSE IF s[i] = CR THEN LF ELSE s[i]]
    IN  SelectSeq(marked, LAMBDA c : c # "")

\* open(filepath, 'r', encoding='utf-8', errors='ignore').read():
\* bytes that are no UTF-8 are dropped, then the newlines are translated
Decode(bytes) == Newlines(SelectSeq(bytes, LAMBDA b : b # XFF))

RECURSIVE Encode(_, _)
\* open(filepath, 'w', encoding='utf-8').write(content): \n becomes os.linesep
Encode(text, sep) ==
    LET found == {i \in DOMAIN text : text[i] = LF}
    IN  IF found = {} THEN text
        ELSE LET j == Least(found)
             IN  SubSeq(text, 1, j - 1) \o sep
                    \o Encode(SubSeq(text, j + 1, Len(text)), sep)

\* what a write that fails after the truncating open can leave of n bytes
PartialLengths(n) == {0, n \div 2}

Faults == {"none", "read", "wopen", "write"}

\* update_file(filepath) on a file holding bytes, under an input/output fault:
\* the value returned, the bytes left on disk, whether an exception was caught
\* and whether the file was opened for writing
UpdateFile(bytes, fault, k) ==
    LET original_content == Decode(bytes)
        content == ApplyRules(patterns, original_content)
        same == [ret |-> FALSE, disk |-> bytes, err |-> FALSE, wopen |-> FALSE]
    IN  IF fault = "read" THEN [same EXCEPT !.err = TRUE]
        ELSE IF ~Changed(content, original_content) THEN same
        ELSE IF fault = "wopen" THEN [same EXCEPT !.err = TRUE, !.wopen = TRUE]
        ELSE IF fault = "write"
             THEN [ret |-> FALSE, disk |-> SubSeq(Encode(content, linesep), 1, k),
                   err |-> TRUE, wopen |-> TRUE]
             ELSE [ret |-> TRUE, disk |-> Encode(content, linesep),
                   err |-> FALSE, wopen |-> TRUE]

\* the k a fault can take on this file
FaultArgs(bytes, fault) ==
    IF fault = "write"
    THEN PartialLengths(Len(Encode(ApplyRules(patterns, Decode(bytes)), linesep)))
    ELSE {0}

(* ---------------------------- the tree --------------------------------- *)
SrcDir == "apps/curated/marketplace-frontend/src"

Globs == << <<"*", ".", "t", "s">>, <<"*", ".", "t", "s", "x">> >>

\* fnmatch of a file name against "*<suffix>"
MatchesGlob(glob, name) ==
    LET suffix == Tail(glob)
    IN  /\ Len(name) >= Len(suffix)
        /\ SubSeq(name, Len(name) - Len(suffix) + 1, Len(name)) = suffix

\* the check of the root directory left out
RootMissingIgnored == FALSE

\* not src_dir.exists()
RootMissing == ~rootExists

\* src_dir.rglob(ext)
Rglob(glob) == {f \in tree : MatchesGlob(glob, f)}

\* if update_file(filepath): updated_files.append(filepath)
Collect(updated, filepath, changed) ==
    IF changed THEN Append(updated, filepath) ELSE updated

\* update_file without its except clause: an error ends main
AfterUpdateFileRaise(res) == IF res.err THEN "crashed" ELSE "loop"

\* where main goes on after update_file returned
AfterUpdateFile(res) == "loop"

RECURSIVE Items(_)
Items(paths) ==
    IF paths = <<>> THEN <<>>
    ELSE <<[kind |-> "item", arg |-> Head(paths)]>> \o Items(Tail(paths))

(* ---------------------------- actions ---------------------------------- *)
\* main, up to the loops: the check of the root directory
MainStart ==
    /\ pc = "start"
    /\ IF RootMissing
       THEN /\ output' = Append(output, [kind |-> "notfound", arg |-> SrcDir])
            /\ pc' = "aborted"
            /\ UNCHANGED <<updated_files, ext, pending>>
       ELSE /\ updated_files' = <<>>
            /\ ext' = 1
            /\ pending' = Rglob(Globs[1])
            /\ pc' = "loop"
            /\ UNCHANGED output
    /\ UNCHANGED <<patterns, linesep, rootExists, tree, disk, disk0, calls,
                   errors, wopened, run, prevErrors, prevUpdated>>

\* one iteration of the inner loop: update_file on the next file of the pass
VisitFile ==
    /\ pc = "loop"
    /\ \E f \in pending : \E fault \in Faults :
         \E k \in FaultArgs(disk[f], fault) :
           LET res == UpdateFile(disk[f], fault, k)
           IN  /\ disk' = [disk EXCEPT ![f] = res.disk]
               /\ updated_files' = Collect(updated_files, f, res.ret)
               /\ output' = IF res.err
                            THEN Append(output, [kind |-> "error", arg |-> f])
                            ELSE output
               /\ errors' = IF res.err THEN errors \cup {f} ELSE errors
               /\ wopened' = IF res.wopen THEN wopened \cup {f} ELSE wopened
               /\ calls' = Append(calls, f)
               /\ pending' = pending \ {f}
               /\ pc' = AfterUpdateFile(res)
    /\ UNCHANGED <<patterns, linesep, rootExists, tree, ext, disk0, run,
                   prevErrors, prevUpdated>>

\* the outer loop goes on to the next extension
NextExt ==
    /\ pc = "loop"
    /\ pending = {}
    /\ ext < Len(Globs)
    /\ ext' = ext + 1
    /\ pending' = Rglob(Globs[ext + 1])
    /\ UNCHANGED <<patterns, linesep, rootExists, tree, disk, pc,
                   updated_files, output, disk0, calls, errors, wopened, run,
                   prevErrors, prevUpdated>>

\* the summary after the loops
Summary ==
    /\ pc = "loop"
    /\ pending = {}
    /\ ext = Len(Globs)
    /\ output' = output
                  \o <<[kind |-> "count", arg |-> Len(updated_files)]>>
                  \o Items(updated_files)
    /\ pc' = "done"
    /\ UNCHANGED <<patterns, linesep, rootExists, tree, disk, ext, pending,
                   updated_files, disk0, calls, errors, wopened, run,
                   prevErrors, prevUpdated>>

\* the script is invoked again on the tree the previous run left
Rerun ==
    /\ pc = "done"
    /\ run = 1
    /\ run' = run + 1
    /\ prevErrors' = errors
    /\ prevUpdated' = updated_files
    /\ disk0' = disk
    /\ pc' = "start"
    /\ updated_files' = <<>>
    /\ output' = <<>>
    /\ calls' = <<>>
    /\ errors' = {}
    /\ wopened' = {}
    /\ ext' = 1
    /\ pending' = {}
    /\ UNCHANGED <<patterns, linesep, rootExists, tree, disk>>

(* ---------------------------- initial states --------------------------- *)
Import(q1, name, q2) == KwFrom \o <<q1>> \o LegacyDir \o name \o <<q2>>

FileA == <<"a", ".", "t", "s">>
FileB == <<"b", ".", "t", "s", "x">>
FileC == <<"c", ".", "t", "s", "x", ".", "t", "s">>
FileD == <<"d", ".", "j", "s">>
Paths == {FileA, FileB, FileC, FileD}

\* pieces a file's content is built from
Chunks ==
    { Import(SQ, badge, SQ),
      Import(DQ, select, DQ),
      Import(SQ, progress, DQ),
      Import(SQ, dialog, SQ),
      Brace,
      KwFrom \o <<SQ>> \o LegacyDir \o badge,
      <<"-", "x", SQ>>,
      Replacement,
      <<XFF>>,
      <<CR, LF>> }

RECURSIVE Contents(_)
Contents(n) ==
    IF n = 0 THEN {<<>>}
    ELSE LET shorter == Contents(n - 1)
         IN  shorter \cup {c \o d : c \in shorter, d \in Chunks}

BatchContents ==
    { Import(SQ, <<"u", "n", "r", "e", "l", "a", "t", "e", "d">>, SQ),
      Import(SQ, badge, SQ) \o <<LF>> \o Import(DQ, select, DQ),
      KwFrom \o <<DQ>> \o LegacyDir \o <<"t", "a", XFF, "b", "s", SQ>>
          \o <<CR, LF>> \o Brace \o Import(DQ, dialog, DQ) }

InitCommon ==
    /\ pc = "start"
    /\ ext = 1
    /\ pending = {}
    /\ updated_files = <<>>
    /\ output = <<>>
    /\ disk0 = disk
    /\ calls = <<>>
    /\ errors = {}
    /\ wopened = {}
    /\ run = 1
    /\ prevErrors = {}
    /\ prevUpdated = <<>>

\* a tree of up to MaxFiles files
Init ==
    /\ patterns \in {patterns23, patterns24}
    /\ linesep = <<LF>>
    /\ rootExists \in BOOLEAN
    /\ tree \in IF rootExists
               THEN {t \in SUBSET Paths : Cardinality(t) <= MaxFiles}
               ELSE {{}}
    /\ disk \in [tree -> BatchContents]
    /\ InitCommon

\* one file of any content
InitRewrite ==
    /\ patterns \in {patterns23, patterns24}
    /\ linesep \in {<<LF>>, <<CR, LF>>}
    /\ rootExists = TRUE
    /\ tree = {FileA}
    /\ disk \in [tree -> Contents(MaxChunks)]
    /\ InitCommon

Next == MainStart \/ VisitFile \/ NextExt \/ Summary

NextRewrite == MainStart \/ VisitFile \/ NextExt \/ Summary \/ Rerun

Spec == Init /\ [][Next]_vars

SpecRewrite == InitRewrite /\ [][NextRewrite]_vars

(* ---------------------------- properties ------------------------------ *)
InList(f, paths) == \E i \in DOMAIN paths : paths[i] = f

\* the text update_file reads from a file as it was when the run began
Text0(f) == Decode(disk0[f])

\* that text after every rule of the table
Rewritten(f) == ApplyRules(patterns, Text0(f))

AnyMatch(rules, s) == \E r \in DOMAIN rules : HasMatch(rules[r].pat, s)

\* the files the two passes enumerate
Enumerated == {f \in tree : \E g \in DOMAIN Globs : MatchesGlob(Globs[g], f)}

\* update_file read the file (it was called on it and the read did not fail)
WasRead(f) == InList(f, calls) /\ (f \notin errors \/ f \in wopened)

\* C1: a visited file is opened for writing if and only if the text after all
\* rules differs from the text read; a file whose text holds no match of any
\* rule is never opened for writing, keeps its bytes on disk and is not in
\* the changed list.
C1_WriteIffChanged ==
    \A f \in tree :
       /\ WasRead(f) => (f \in wopened <=> Rewritten(f) # Text0(f))
       /\ ~AnyMatch(patterns, Text0(f)) =>
             /\ f \notin wopened
             /\ disk[f] = disk0[f]
             /\ ~InList(f, updated_files)

C1_Witness ==
    /\ pc = "done"
    /\ \E f \in tree : WasRead(f) /\ ~AnyMatch(patterns, Text0(f))
    /\ \E f \in tree : WasRead(f) /\ f \in wopened /\ InList(f, updated_files)

\* C3: a failure on one file is caught in update_file and counts as not
\* changed for that file only: main never stops in the loops, a finished run
\* has called update_file once on every enumerated file, lists exactly the
\* files without a failure whose text changed, each written in full, and
\* ends with the summary.
C3_FailureIsolated ==
    /\ rootExists => pc \in {"start", "loop", "done"}
    /\ pc = "done" =>
          /\ \A f \in Enumerated : InList(f, calls)
          /\ Len(calls) = Cardinality(Enumerated)
          /\ \A f \in errors : ~InList(f, updated_files)
          /\ \A f \in Enumerated \ errors :
                /\ InList(f, updated_files) <=> Rewritten(f) # Text0(f)
                /\ InList(f, updated_files) =>
                      disk[f] = Encode(Rewritten(f), linesep)
          /\ Len(output) > Len(updated_files)
          /\ output[Len(output) - Len(updated_files)]
                = [kind |-> "count", arg |-> Len(updated_files)]
          /\ \A i \in DOMAIN updated_files :
                output[Len(output) - Len(updated_files) + i]
                   = [kind |-> "item", arg |-> updated_files[i]]

C3_Witness ==
    /\ pc = "done"
    /\ \E i, j \in DOMAIN calls :
          /\ i < j
          /\ calls[i] \in errors
          /\ InList(calls[j], updated_files)

\* C4: with the root directory missing, main prints one message naming the
\* directory and returns: no file is enumerated, read or written, the changed
\* list stays empty and no summary is printed.
C4_MissingRoot ==
    ~rootExists =>
       /\ pc \in {"start", "aborted"}
       /\ pc = "start" => output = <<>>
       /\ pc = "aborted" => output = <<[kind |-> "notfound", arg |-> SrcDir]>>
       /\ calls = <<>>
       /\ wopened = {}
       /\ updated_files = <<>>
       /\ disk = disk0

C4_Witness == ~rootExists /\ pc = "aborted"

\* C6: no path occurs twice in updated_files, and a listed file holds no
\* match of any rule any more, however many rules matched in it.
C6_ListedOnce ==
    /\ \A i, j \in DOMAIN updated_files :
          updated_files[i] = updated_files[j] => i = j
    /\ \A f \in tree :
          InList(f, updated_files) => ~AnyMatch(patterns, Decode(disk[f]))

C6_Witness ==
    /\ pc = "done"
    /\ \E i, j \in DOMAIN updated_files :
          /\ MatchesGlob(Globs[1], updated_files[i])
          /\ MatchesGlob(Globs[2], updated_files[j])
    /\ \E f \in tree :
          /\ InList(f, updated_files)
          /\ \E r1, r2 \in DOMAIN patterns :
                /\ r1 # r2
                /\ HasMatch(patterns[r1].pat, Text0(f))
                /\ HasMatch(patterns[r2].pat, Text0(f))

\* C8: a file for which update_file caught an error holds the bytes it held
\* before the run.
C8_UnchangedOnError ==
    \A f \in errors : disk[f] = disk0[f]

(* ---------------------------- reference rewriting ---------------------- *)
\* the literal text lit stands in s at position i
IsAt(lit, s, i) ==
    /\ i + Len(lit) - 1 <= Len(s)
    /\ SubSeq(s, i, i + Len(lit) - 1) = lit

Occurs(clauses, s) == \E c \in clauses : \E i \in 1..Len(s) : IsAt(c.from, s, i)

ClausesAt(clauses, s, i) == {c \in clauses : IsAt(c.from, s, i)}

RECURSIVE ReplaceFrom(_, _, _)
ReplaceFrom(clauses, s, i) ==
    LET found == {j \in i..Len(s) : ClausesAt(clauses, s, j) # {}}
    IN  IF found = {} THEN SubSeq(s, i, Len(s))
        ELSE LET j == Least(found)
                 c == CHOOSE d \in ClausesAt(clauses, s, j) : TRUE
             IN  SubSeq(s, i, j - 1) \o c.to
                    \o ReplaceFrom(clauses, s, j + Len(c.from))

\* s with every occurrence of a clause's text replaced by the clause's target
ReplaceLiterals(clauses, s) == ReplaceFrom(clauses, s, 1)

\* the import clauses of the named components, in either quoting
Clauses(names, to) ==
    {[from |-> Import(q1, n, q2), to |-> to] :
        q1 \in {SQ, DQ}, n \in names, q2 \in {SQ, DQ}}

Braced(clauses) ==
    {[from |-> Brace \o c.from, to |-> Brace \o c.to] : c \in clauses}

Targets23 == {badge, alert, label, textarea, select}
Targets24 == {progress, switch, scroll_area, tabs, dropdown_menu, dialog}

\* the clauses of every target component of the script
TargetClauses ==
    Clauses(IF patterns = patterns23 THEN Targets23 ELSE Targets24, Replacement)

\* the same, the dialog clauses only where "} " stands before them
BracedDialogClauses ==
    IF patterns = patterns23
    THEN Clauses(Targets23, Replacement)
    ELSE Clauses(Targets24 \ {dialog}, Replacement)
            \cup Braced(Clauses({dialog}, Replacement))

\* a run that ends has replaced exactly the clauses in every file it
\* processed without an error, and reports exactly the files holding one
ClausesRewritten(clauses) ==
    pc = "done" =>
       \A f \in tree \ errors :
          IF Occurs(clauses, Text0(f))
          THEN /\ InList(f, updated_files)
               /\ Decode(disk[f]) = ReplaceLiterals(clauses, Text0(f))
          ELSE /\ ~InList(f, updated_files)
               /\ disk[f] = disk0[f]

\* C5 (as claimed): every clause from '@/components/ui/<name>' of a target
\* component is replaced by from '@jade/ui/components' and the file reported;
\* a file without such a clause is not reported and keeps its bytes.
C5_TargetClausesRewritten == ClausesRewritten(TargetClauses)

\* C5 (amended): the same, where a dialog clause counts only with "} " right
\* before it, which is then replaced together with the clause.
C5_BracedDialogRewritten == ClausesRewritten(BracedDialogClauses)

C5_Witness ==
    /\ pc = "done"
    /\ \E f \in tree \ errors :
          /\ Occurs(Braced(Clauses({dialog}, Replacement)), Text0(f))
          /\ InList(f, updated_files)
    /\ patterns = patterns24

\* C2: rewriting a rewritten text changes nothing, so a second run opens for
\* writing, changes and reports no file the first run processed without an
\* error.
C2_Idempotent ==
    \A f \in tree :
       /\ pc = "start" => ApplyRules(patterns, Rewritten(f)) = Rewritten(f)
       /\ (run = 2 /\ f \notin prevErrors) =>
             /\ f \notin wopened
             /\ disk[f] = disk0[f]
             /\ ~InList(f, updated_files)

C2_Witness ==
    /\ run = 2
    /\ pc = "done"
    /\ prevErrors = {}
    /\ prevUpdated # <<>>
    /\ Len(calls) = 1
    /\ updated_files = <<>>

(* ---------------------------- frame of a rewrite ----------------------- *)
RECURSIVE OutsideFrom(_, _, _)
OutsideFrom(rules, s, i) ==
    LET found == AnyMatchesFrom(rules, s, i)
    IN  IF found = {} THEN <<SubSeq(s, i, Len(s))>>
        ELSE LET j == Least(found)
                 r == Least(RulesAt(rules, s, j))
             IN  <<SubSeq(s, i, j - 1)>>
                    \o OutsideFrom(rules, s, j + Len(rules[r].pat))

\* the pieces of s outside the substrings a rule matches, in order
Outside(rules, s) == OutsideFrom(rules, s, 1)

RECURSIVE FrameFits(_, _)
\* s is the pieces in order with some text between each two of them
FrameFits(pieces, s) ==
    LET h == Head(pieces)
    IN  /\ Len(s) >= Len(h)
        /\ SubSeq(s, 1, Len(h)) = h
        /\ IF Len(pieces) = 1 THEN Len(s) = Len(h)
           ELSE \E j \in (Len(h) + 1)..(Len(s) + 1) :
                   FrameFits(Tail(pieces), SubSeq(s, j, Len(s)))

\* C9 (as claimed): a rewritten file differs from its old bytes only at the
\* substrings a rule matches; every byte outside them stays in place.
C9_BytesOutsidePreserved ==
    \A f \in tree :
       InList(f, updated_files) =>
          FrameFits(Outside(patterns, disk0[f]), disk[f])

\* C9 (amended): after a run the text of a rewritten file differs from the text read
\* (undecodable bytes dropped, line ends read as \n) only at the substrings
\* a rule matches; the bytes written hold no undecodable byte and end lines
\* with the platform's separator.
C9_TextOutsidePreserved ==
    \A f \in tree :
       (pc = "done" /\ InList(f, updated_files)) =>
          /\ FrameFits(Outside(patterns, Text0(f)), Decode(disk[f]))
          /\ \A i \in DOMAIN disk[f] : disk[f][i] # XFF
          /\ disk[f] = Encode(Decode(disk[f]), linesep)

C9_Witness ==
    /\ pc = "done"
    /\ \E f \in tree :
          /\ InList(f, updated_files)
          /\ Len(Outside(patterns, Text0(f))) = 2
          /\ \E i \in DOMAIN disk0[f] : disk0[f][i] \in {XFF, CR}

(* ---------------------------- order of the rules ---------------------- *)
RECURSIVE AfterAnyOrder(_, _, _)
\* the pairs <<rules applied, text>> after k different rules in any order
AfterAnyOrder(rules, k, s) ==
    IF k = 0 THEN {<<{}, s>>}
    ELSE LET before == AfterAnyOrder(rules, k - 1, s)
         IN  UNION { { <<b[1] \cup {r}, Sub(rules[r].pat, rules[r].repl, b[2])>> :
                          r \in DOMAIN rules \ b[1] } : b \in before }

\* the texts the table can end with, over every order of its rules
AllOrders(rules, s) == {b[2] : b \in AfterAnyOrder(rules, Len(rules), s)}

NumMatches(pat, s) == Cardinality({i \in 1..Len(s) : MatchAt(pat, s, i)})

\* C10: with either table, applying one rule leaves the matches of every
\* other rule as they were and none of its own, so the text update_file
\* ends with is the same under every permutation of the table and is the
\* single pass over the text read.
C10_OrderIrrelevant ==
    \A f \in tree :
       /\ (pc = "done" /\ run = 1 /\ errors = {} /\ linesep = <<LF>>) =>
             /\ AllOrders(patterns, Text0(f)) = {SinglePass(patterns, Text0(f))}
             /\ Rewritten(f) = SinglePass(patterns, Text0(f))
             /\ \A r \in DOMAIN patterns :
                   LET t == Sub(patterns[r].pat, patterns[r].repl, Text0(f))
                   IN  \A q \in DOMAIN patterns :
                          NumMatches(patterns[q].pat, t)
                             = IF q = r THEN 0
                               ELSE NumMatches(patterns[q].pat, Text0(f))
       /\ (pc = "done" /\ InList(f, updated_files)) =>
             Decode(disk[f]) = SinglePass(patterns, Text0(f))

C10_Witness ==
    /\ pc = "done"
    /\ \E f \in tree :
          /\ InList(f, updated_files)
          /\ \E r, q \in DOMAIN patterns :
                /\ r < q
                /\ HasMatch(patterns[r].pat, Text0(f))
                /\ HasMatch(patterns[q].pat, Text0(f))

\* a table whose first rule writes what its second rule matches, and the
\* same two rules the other way round
ChainFirst == Rule(ImportPattern(badge), Import(SQ, select, SQ))
ChainSecond == Rule(ImportPattern(select), Replacement)
patternsChained == <<ChainFirst, ChainSecond>>
patternsReversed == <<ChainSecond, ChainFirst>>

InitOrder ==
    /\ patterns \in {patternsChained, patternsReversed}
    /\ linesep = <<LF>>
    /\ rootExists = TRUE
    /\ tree = {FileA}
    /\ disk \in [tree -> Contents(MaxChunks)]
    /\ InitCommon

SpecOrder == InitOrder /\ [][Next]_vars

\* C7: the rules are applied in list order, each to the text the rule before
\* it left: with the chained table a badge clause ends as the new module's
\* clause, as every select clause does; with the rules the other way round a
\* badge clause ends as a select clause.
C7_AppliedInOrder ==
    pc = "done" =>
       \A f \in tree \ errors :
          /\ Decode(disk[f])
                = Sub(patterns[2].pat, patterns[2].repl,
                      Sub(patterns[1].pat, patterns[1].repl, Text0(f)))
          /\ Decode(disk[f])
                = ReplaceLiterals(
                     Clauses({select}, Replacement)
                        \cup Clauses({badge},
                                     IF patterns = patternsChained
                                     THEN Replacement
                                     ELSE Import(SQ, select, SQ)),
                     Text0(f))

C7_Witness ==
    /\ pc = "done"
    /\ patterns = patternsChained
    /\ \E f \in tree :
          /\ InList(f, updated_files)
          /\ HasMatch(ChainFirst.pat, Text0(f))
          /\ ~HasMatch(ChainSecond.pat, Text0(f))
          /\ ~HasMatch(ChainFirst.pat, Decode(disk[f]))
          /\ ~HasMatch(ChainSecond.pat, Decode(disk[f]))

====
